---- MODULE Spec2Model ----
(***************************************************************************)
(* Git Manager (git_manager.py): the encrypted configuration store, the    *)
(* foreground menu handlers that write it, and the auto-commit background  *)
(* thread (auto_commit_process) that polls it and stages, commits and      *)
(* pushes the tracked files.                                               *)
(*                                                                         *)
(* One foreground flow (menu) and the scheduler threads it spawns run      *)
(* interleaved; a step of the model is one file-system or git operation,   *)
(* or one run of straight-line code between two of them.                   *)
(***************************************************************************)
EXTENDS Integers, Sequences, FiniteSets, TLC

(***************************************************************************)
(* Bounds of the model.                                                    *)
(***************************************************************************)
\* scheduler thread slots (threading.Thread objects the process may create)
MaxThreads == 2
\* menu choices the user makes in one process while a thread runs
MaxFgOps == 2
\* menu choices the user makes in one process that has started no thread
MaxFgOpsAlone == 4
\* changes made to the working tree from outside the program
MaxEdits == 1
\* the saturation value of the per-thread count of sync attempts
MaxCount == 4

(***************************************************************************)
(* Program constants.                                                      *)
(***************************************************************************)
\* auto_commit_process: "if error_count >= 3"
ErrorThreshold == 3
\* auto_commit_process: time.sleep(30) after a cycle
CycleSleep == 30
\* auto_commit_process: time.sleep(60) in the outer except
ErrorSleep == 60
\* edit_config: the default commit interval
DefaultInterval == 30

Files == {"a.txt", "b.txt"}
Threads == 1..MaxThreads

(***************************************************************************)
(* Configuration values.  A configuration is a Python dict: a function     *)
(* from some of the keys to values.  tracked_files is the string "all" or  *)
(* a list of paths: [all |-> TRUE, files |-> <<>>] stands for "all" and    *)
(* [all |-> FALSE, files |-> l] for the list l.                            *)
(***************************************************************************)
AllFiles == [all |-> TRUE, files |-> <<>>]
ExplicitSet(l) == [all |-> FALSE, files |-> l]

\* dict.get(key, default)
Get(cfg, key, default) == IF key \in DOMAIN cfg THEN cfg[key] ELSE default

\* cfg[key] = value (adds the key when it is missing)
Put(cfg, key, value) == (key :> value) @@ cfg

\* the literal returned by load_config for a missing or unreadable file
DefaultConfig ==
    [repo_url |-> "", tracked_files |-> ExplicitSet(<<>>),
     auto_commit |-> FALSE, daemon_mode |-> FALSE]

\* x in list
\* a membership test that finds nothing
InListNever(x, l) == FALSE

InList(x, l) == \E i \in 1..Len(l) : l[i] = x

\* list.remove(x): deletes the first occurrence
RECURSIVE ListRemove(_, _)
ListRemove(l, x) ==
    IF l = <<>> THEN <<>>
    ELSE IF Head(l) = x THEN Tail(l)
    ELSE <<Head(l)>> \o ListRemove(Tail(l), x)

(***************************************************************************)
(* json.dumps / json.loads.  A document is the text of a JSON object, kept *)
(* as the sequence of its members in the order of KeyOrder; a member is a  *)
(* key and the tokens of its value: <<"true">>, <<"false">>,               *)
(* <<"num", digits>>, <<"str", s>>, <<"list", s1, ..., sn>>.               *)
(***************************************************************************)
KeyOrder == <<"repo_url", "tracked_files", "auto_commit", "daemon_mode",
              "commit_interval", "github_token">>

Numerals == (0 :> "0") @@ (15 :> "15") @@ (30 :> "30") @@ (-5 :> "-5")

JsonValue(key, v) ==
    CASE key \in {"auto_commit", "daemon_mode"} ->
            IF v THEN <<"true">> ELSE <<"false">>
      [] key = "commit_interval" -> <<"num", Numerals[v]>>
      [] key = "tracked_files" ->
            IF v.all THEN <<"str", "all">> ELSE <<"list">> \o v.files
      [] OTHER -> <<"str", v>>

PyValue(key, toks) ==
    CASE toks[1] = "true" -> TRUE
      [] toks[1] = "false" -> FALSE
      [] toks[1] = "num" -> CHOOSE n \in DOMAIN Numerals : Numerals[n] = toks[2]
      [] toks[1] = "list" -> ExplicitSet(Tail(toks))
      [] toks[1] = "str" /\ key = "tracked_files" -> AllFiles
      [] OTHER -> toks[2]

RECURSIVE DumpKeys(_, _)
DumpKeys(cfg, keys) ==
    IF keys = <<>> THEN <<>>
    ELSE (IF Head(keys) \in DOMAIN cfg
             THEN <<[k |-> Head(keys), v |-> JsonValue(Head(keys), cfg[Head(keys)])]>>
             ELSE <<>>) \o DumpKeys(cfg, Tail(keys))

JsonDumps(cfg) == DumpKeys(cfg, KeyOrder)

RECURSIVE LoadMembers(_)
LoadMembers(doc) ==
    IF doc = <<>> THEN <<>>
    ELSE (Head(doc).k :> PyValue(Head(doc).k, Head(doc).v)) @@ LoadMembers(Tail(doc))

JsonLoads(doc) == LoadMembers(doc)

(***************************************************************************)
(* The two files.  The key file holds a key (a positive number) or is      *)
(* missing (0).  The configuration file is missing, empty (opened for      *)
(* writing, nothing written yet), or holds a token.                        *)
(***************************************************************************)
NoKey == 0
Missing == [kind |-> "missing"]
Empty == [kind |-> "empty"]
\* bytes that are no Fernet token
Garbage == [kind |-> "garbage"]
\* Fernet(key).encrypt(text)
Token(key, text) == [kind |-> "token", key |-> key, text |-> text]
\* a token whose plaintext is not JSON
NotJson == <<[k |-> "", v |-> <<"not json">>]>>


(***************************************************************************)
(* generate_key, load_key: the key is generated when the key file is       *)
(* missing; keyGen counts the keys generated so far, and a generated key   *)
(* is a fresh one.                                                         *)
(***************************************************************************)
GenerateKey(kf, gen) == IF kf = NoKey THEN gen + 1 ELSE kf

LoadKey(kf, gen) == GenerateKey(kf, gen)

KeysGenerated(kf, gen) == IF kf = NoKey THEN gen + 1 ELSE gen

\* encrypt_data
EncryptData(cfg, key) == Token(key, JsonDumps(cfg))

(***************************************************************************)
(* decrypt_data and load_config.  The result of a call says whether it     *)
(* raised, the exception, the configuration returned and what was read.    *)
(***************************************************************************)
Returned(cfg, raw) == [raised |-> FALSE, exc |-> "", cfg |-> cfg, raw |-> raw]
Raised(exc, raw) == [raised |-> TRUE, exc |-> exc, cfg |-> DefaultConfig, raw |-> raw]

\* Backfill without the membership test
BackfillAlways(cfg) == Put(cfg, "daemon_mode", FALSE)

\* "Ensure all expected keys exist"
Backfill(cfg) ==
    LET c1 == IF "daemon_mode" \in DOMAIN cfg THEN cfg
              ELSE Put(cfg, "daemon_mode", FALSE)
    IN  IF "tracked_files" \in DOMAIN c1 THEN c1
        ELSE Put(c1, "tracked_files", ExplicitSet(<<>>))

\* the body of load_config's try block: open, read, decrypt, backfill.
\* cryptography's InvalidToken and FileNotFoundError are no ValueError,
\* so the except clause does not catch them.
LoadConfigOpen(file, key) ==
    CASE file.kind = "missing" -> Raised("FileNotFoundError", file.kind)
      [] file.kind \in {"empty", "garbage"} -> Raised("InvalidToken", file.kind)
      [] file.kind = "token" /\ file.key # key -> Raised("InvalidToken", file.kind)
      [] file.kind = "token" /\ file.key = key /\ file.text = NotJson ->
            Returned(DefaultConfig, file.kind)
      [] OTHER -> Returned(Backfill(JsonLoads(file.text)), file.kind)

\* load_config run without interruption
LoadConfig(file, key) ==
    IF file.kind = "missing" THEN Returned(DefaultConfig, file.kind)
    ELSE LoadConfigOpen(file, key)

\* save_config with "return True" after the write
SaveConfigReturnsWritten(written) == written

\* save_config has no return statement: its callers test None
SaveConfigReturn(written) == FALSE

\* the flags test that never sees them off
FlagsEnabledAlways(cfg) == TRUE

\* the flags test that takes a stored interval for an enabled auto-commit
FlagsEnabledByInterval(cfg) ==
    \/ Get(cfg, "auto_commit", FALSE)
    \/ Get(cfg, "daemon_mode", FALSE)
    \/ "commit_interval" \in DOMAIN cfg

\* the flag test with auto_commit alone
FlagsEnabledAutoOnly(cfg) == Get(cfg, "auto_commit", FALSE)

\* "config.get('auto_commit') or config.get('daemon_mode')"
FlagsEnabled(cfg) == Get(cfg, "auto_commit", FALSE) \/ Get(cfg, "daemon_mode", FALSE)

\* int(text): the value, or ValueError
IntLiterals == ("0" :> 0) @@ ("15" :> 15) @@ ("30" :> 30) @@ ("-5" :> -5)
IsInt(text) == text \in DOMAIN IntLiterals
PyInt(text) == IntLiterals[text]

(***************************************************************************)
(* The working tree as git and os.path.exists see it, per path:            *)
(*   absent    not on disk and unknown to git                              *)
(*   clean     on disk, equal to HEAD                                      *)
(*   modified  on disk, changed or untracked, not staged                   *)
(*   staged    on disk, the index differs from HEAD                        *)
(*   rm_staged on disk, removed from the index (git rm --cached)           *)
(*   deleted   known to git, no longer on disk                             *)
(*   del_staged  no longer on disk, the deletion is in the index           *)
(***************************************************************************)
WtStates == {"absent", "clean", "modified", "staged", "rm_staged", "deleted", "del_staged"}

Exists(w, f) == w[f] \notin {"absent", "deleted", "del_staged"}

\* git status --porcelain <f> prints something
StatusPath(w, f) == w[f] \in {"modified", "staged", "rm_staged", "deleted", "del_staged"}

\* git status --porcelain prints something
StatusAny(w) == \E f \in Files : StatusPath(w, f)

AddOne(s) ==
    CASE s = "modified" -> "staged"
      [] s = "rm_staged" -> "clean"
      [] s = "deleted" -> "del_staged"
      [] OTHER -> s

\* git add <f> staging the whole tree
GitAddEverything(w, f) == [g \in Files |-> AddOne(w[g])]

\* git add <f>
GitAdd(w, f) == [w EXCEPT ![f] = AddOne(w[f])]

\* git add .
GitAddAll(w) == [f \in Files |-> AddOne(w[f])]

\* git commit has something to commit
CanCommit(w) == \E f \in Files : w[f] \in {"staged", "rm_staged", "del_staged"}

\* a commit that leaves the index as it was
GitCommitKeepsIndex(w) == w

\* git commit
GitCommit(w) ==
    [f \in Files |-> CASE w[f] = "staged" -> "clean"
                       [] w[f] = "rm_staged" -> "modified"
                       [] w[f] = "del_staged" -> "absent"
                       [] OTHER -> w[f]]

\* git rm --cached <f>
GitRmCached(w, f) == [w EXCEPT ![f] = "rm_staged"]

\* the backups directory does not exist or is empty
NoBackups == <<>>

VARIABLES
    cfgFile,       \* tracked_files.json
    keyFile,       \* encryption.key
    keyGen,        \* keys generated so far
    wt,            \* the working tree
    unpushed,      \* local commits the remote does not have
    rewrote,       \* a command that rewrites history has been run
    gitDir,        \* the folder has a .git directory
    fgPc,          \* where the foreground flow is
    fgCfg,         \* the handler's local "config"
    fgAdded,       \* files_added / removed_files of the running handler
    fgCont,        \* the call site of the save_config in progress
    fgOps,         \* menu choices made
    nThreads,      \* threads started
    schedPc,       \* where each auto_commit_process is
    errorCount,    \* error_count
    schedTracked,  \* tracked_files
    schedInterval, \* commit_interval of the thread's config
    schedLoad,     \* the result of the thread's last load_config
    schedCmds,     \* the git commands of the current cycle, with their results
    schedStop,     \* why the thread returned
    schedWait,     \* seconds of the sleep in progress
    hist,          \* per thread: sync attempts while every cycle failed,
                   \* and whether a commit it made is not pushed yet
    edits,         \* outside changes made
    backupDir      \* the files of the backups directory, by name

storeVars == <<cfgFile, keyFile, keyGen>>
repoVars == <<wt, unpushed, rewrote, gitDir>>
fgVars == <<fgPc, fgCfg, fgAdded, fgCont, fgOps>>
schedVars == <<nThreads, schedPc, errorCount, schedTracked, schedInterval, schedLoad,
               schedCmds, schedStop, schedWait, hist>>
vars == <<storeVars, repoVars, fgVars, schedVars, edits, backupDir>>


(***************************************************************************)
(* The initial states: the process has not started.  The files are what an *)
(* earlier run of the program, or the user, left behind.                   *)
(***************************************************************************)
InitTracked == {AllFiles, ExplicitSet(<<>>), ExplicitSet(<<"a.txt">>)}

\* configurations an earlier run saved: auto-commit is enabled together
\* with an interval
InitConfigs ==
    {Put(Put(DefaultConfig, "tracked_files", tf), "daemon_mode", d) :
        tf \in InitTracked, d \in BOOLEAN}
    \cup
    {Put(Put(Put(DefaultConfig, "tracked_files", tf),
             "auto_commit", TRUE), "commit_interval", DefaultInterval) :
        tf \in InitTracked}

InitFiles ==
    {Missing, Garbage, Token(1, NotJson)} \cup {EncryptData(c, 1) : c \in InitConfigs}

\* the configuration file, the key file and the keys generated so far: a
\* first run, a later run, and a later run after the key file was lost
InitStores ==
    {<<Missing, NoKey, 0>>}
    \cup {<<file, 1, 1>> : file \in InitFiles}
    \cup {<<EncryptData(DefaultConfig, 1), NoKey, 1>>}

InitTrees ==
    {[f \in Files |-> IF f = "a.txt" THEN "clean" ELSE "absent"],
     [f \in Files |-> "modified"]}

NoLoad == [raised |-> FALSE, exc |-> "", raw |-> "none", auto |-> FALSE, daemon |-> FALSE]
NoHist == [attempts |-> 0, allFailed |-> TRUE, owes |-> FALSE]
\* a push succeeded: the remote has every local commit
Pushed(h) == [u \in Threads |-> [h[u] EXCEPT !.owes = FALSE]]

Init ==
    /\ \E st \in InitStores :
         /\ cfgFile = st[1]
         /\ keyFile = st[2]
         /\ keyGen = st[3]
    /\ wt \in InitTrees
    /\ unpushed = FALSE
    /\ rewrote = FALSE
    /\ gitDir = TRUE
    /\ fgPc = "start"
    /\ fgCfg = DefaultConfig
    /\ fgAdded = <<>>
    /\ fgCont = ""
    /\ fgOps = 0
    /\ nThreads = 0
    /\ schedPc = [t \in Threads |-> "idle"]
    /\ errorCount = [t \in Threads |-> 0]
    /\ schedTracked = [t \in Threads |-> ExplicitSet(<<>>)]
    /\ schedInterval = [t \in Threads |-> DefaultInterval]
    /\ schedLoad = [t \in Threads |-> NoLoad]
    /\ schedCmds = [t \in Threads |-> <<>>]
    /\ schedStop = [t \in Threads |-> ""]
    /\ schedWait = [t \in Threads |-> 0]
    /\ hist = [t \in Threads |-> NoHist]
    /\ edits = 0
    /\ backupDir = NoBackups

\* the process runs: the menu loop has neither ended nor died of an exception
ProcessAlive == fgPc \notin {"start", "exited", "crashed", "died"}

(***************************************************************************)
(* threading.Thread(target=auto_commit_process, daemon=True).start()       *)
(***************************************************************************)
StartThread(do) ==
    IF do /\ nThreads < MaxThreads
    THEN /\ nThreads' = nThreads + 1
         /\ schedPc' = [schedPc EXCEPT ![nThreads + 1] = "load"]
         /\ UNCHANGED <<errorCount, schedTracked, schedInterval, schedLoad, schedCmds,
                        schedStop, schedWait, hist>>
    ELSE UNCHANGED schedVars

\* the handler is over: back at the menu prompt, its locals are gone
ToMenu ==
    /\ fgPc' = "menu"
    /\ fgCfg' = DefaultConfig
    /\ fgAdded' = <<>>
    /\ fgCont' = ""

\* an exception no handler catches ends menu(), and with it the process
Crash(exc) ==
    /\ fgPc' = "crashed"
    /\ fgCfg' = DefaultConfig
    /\ fgAdded' = <<>>
    /\ fgCont' = exc

\* save_config up to open(CONFIG_FILE, "w"): the file is truncated; "site"
\* is the caller, which goes on once the with block has written and closed
BeginSave(cfg, site, added) ==
    /\ cfgFile' = Empty
    /\ fgPc' = "save_write"
    /\ fgCfg' = cfg
    /\ fgCont' = site
    /\ fgAdded' = added

(***************************************************************************)
(* menu(): generate_key, verify_config_files, load_config, and the thread  *)
(* start when a flag is set.                                               *)
(***************************************************************************)
Startup ==
    /\ fgPc = "start"
    /\ keyFile' = GenerateKey(keyFile, keyGen)
    /\ keyGen' = KeysGenerated(keyFile, keyGen)
    /\ LET r == LoadConfig(cfgFile, keyFile') IN
         IF r.raised
         THEN Crash(r.exc) /\ UNCHANGED schedVars
         ELSE ToMenu /\ StartThread(FlagsEnabled(r.cfg))
    /\ UNCHANGED <<cfgFile, repoVars, fgOps, edits, backupDir>>

\* the load_config at the top of a handler, run from the menu
FgLoad == LoadConfig(cfgFile, keyFile)

\* the inputs followed: fewer when a thread runs beside the menu
OpsBound == IF nThreads = 0 THEN MaxFgOpsAlone ELSE MaxFgOps

MenuChoice ==
    /\ fgPc = "menu"
    /\ fgOps < OpsBound
    /\ fgOps' = fgOps + 1

(***************************************************************************)
(* edit_config                                                             *)
(***************************************************************************)
IntervalInputs == {"", "abc", "0", "15"}

\* choice "1": int(input(...) or "30"), 30 on ValueError
EnteredInterval(text) ==
    LET t == IF text = "" THEN "30" ELSE text
    IN  IF IsInt(t) THEN PyInt(t) ELSE DefaultInterval

EditConfigAuto ==
    /\ MenuChoice
    /\ LET r == FgLoad IN
         IF r.raised THEN Crash(r.exc) /\ UNCHANGED cfgFile
         ELSE LET c1 == Put(r.cfg, "auto_commit", ~r.cfg["auto_commit"]) IN
              IF c1["auto_commit"]
              THEN \E text \in IntervalInputs :
                     BeginSave(Put(c1, "commit_interval", EnteredInterval(text)),
                               "edit_auto_on", <<>>)
              ELSE BeginSave(c1, "edit_auto_off", <<>>)
    /\ UNCHANGED <<keyFile, keyGen, repoVars, schedVars, edits, backupDir>>

EditConfigDaemon ==
    /\ MenuChoice
    /\ LET r == FgLoad IN
         IF r.raised THEN Crash(r.exc) /\ UNCHANGED cfgFile
         ELSE BeginSave(Put(r.cfg, "daemon_mode", ~Get(r.cfg, "daemon_mode", FALSE)),
                        "edit_daemon", <<>>)
    /\ UNCHANGED <<keyFile, keyGen, repoVars, schedVars, edits, backupDir>>

\* choice "3": only with auto_commit set; the interval is saved when it is
\* a number greater than 0
EditConfigInterval ==
    /\ MenuChoice
    /\ LET r == FgLoad IN
         IF r.raised THEN Crash(r.exc) /\ UNCHANGED cfgFile
         ELSE \E text \in IntervalInputs :
                IF r.cfg["auto_commit"] /\ IsInt(text) /\ PyInt(text) > 0
                THEN BeginSave(Put(r.cfg, "commit_interval", PyInt(text)),
                               "edit_interval", <<>>)
                ELSE ToMenu /\ UNCHANGED cfgFile
    /\ UNCHANGED <<keyFile, keyGen, repoVars, schedVars, edits, backupDir>>

(***************************************************************************)
(* save_config from the with block on: encrypt, write, close; then the     *)
(* caller's "if save_config(config):".  The thread start of edit_config    *)
(* and the commit and push of remove_from_tracking are in the true branch. *)
(***************************************************************************)
SaveWrite ==
    /\ fgPc = "save_write"
    /\ cfgFile' = EncryptData(fgCfg, LoadKey(keyFile, keyGen))
    /\ keyFile' = LoadKey(keyFile, keyGen)
    /\ keyGen' = KeysGenerated(keyFile, keyGen)
    /\ LET ret == SaveConfigReturn(TRUE) IN
         /\ StartThread(fgCont = "edit_auto_on" /\ ret)
         /\ CASE fgCont = "track" ->
                    /\ fgPc' = "track_menu"
                    /\ UNCHANGED <<fgCfg, fgAdded, fgCont>>
              [] fgCont = "remove" /\ ret ->
                    /\ fgPc' = "commit"
                    /\ UNCHANGED <<fgCfg, fgAdded, fgCont>>
              [] OTHER -> ToMenu
    /\ UNCHANGED <<repoVars, fgOps, edits, backupDir>>

\* reset_config
ResetConfig ==
    /\ MenuChoice
    /\ cfgFile' = Missing
    /\ ToMenu
    /\ UNCHANGED <<keyFile, keyGen, repoVars, schedVars, edits, backupDir>>

(***************************************************************************)
(* initialize_git.  With a .git directory it returns at once.  Without one *)
(* and with "y": the key file is removed and a new key is written, then    *)
(* "git init" and "git branch -M main" run, and a remote URL, when one is  *)
(* entered and "git remote add" succeeds, is written into the              *)
(* configuration that load_config returns under the new key.  The inner    *)
(* "except Exception" prints and returns; the outer one removes .git, the  *)
(* key file and the configuration file.                                    *)
(***************************************************************************)
RemoteUrl == "https://example.org/r.git"

\* no remote asked for; git remote add succeeded; git remote add failed
RemoteInputs == {"none", "added", "add_failed"}

InitializeGit ==
    /\ MenuChoice
    /\ ToMenu
    /\ \E confirm \in BOOLEAN, initOk \in BOOLEAN, remote \in RemoteInputs :
         IF gitDir \/ ~confirm
         THEN UNCHANGED <<storeVars, gitDir>>
         ELSE LET key == GenerateKey(NoKey, keyGen) IN
              /\ keyGen' = KeysGenerated(NoKey, keyGen)
              /\ IF ~initOk
                 THEN /\ gitDir' = FALSE
                      /\ keyFile' = NoKey
                      /\ cfgFile' = Missing
                 ELSE /\ gitDir' = TRUE
                      /\ keyFile' = key
                      /\ LET r == LoadConfig(cfgFile, key) IN
                           cfgFile' = IF remote = "added" /\ ~r.raised
                                      THEN EncryptData(Put(r.cfg, "repo_url", RemoteUrl), key)
                                      ELSE cfgFile
    /\ UNCHANGED <<wt, unpushed, rewrote, schedVars, edits, backupDir>>

\* the process ends, and its daemon threads with it
EndThreads ==
    /\ schedPc' = [t \in Threads |-> IF schedPc[t] = "idle" THEN "idle" ELSE "done"]
    /\ errorCount' = [t \in Threads |-> 0]
    /\ schedTracked' = [t \in Threads |-> ExplicitSet(<<>>)]
    /\ schedInterval' = [t \in Threads |-> DefaultInterval]
    /\ schedLoad' = [t \in Threads |-> NoLoad]
    /\ schedCmds' = [t \in Threads |-> <<>>]
    /\ schedStop' = [t \in Threads |-> IF schedPc[t] = "idle" THEN "" ELSE "exit"]
    /\ schedWait' = [t \in Threads |-> 0]
    /\ hist' = [t \in Threads |-> NoHist]
    /\ fgOps' = 0

\* choice "17": menu() returns and the process ends
Exit ==
    /\ fgPc = "menu"
    /\ fgPc' = "exited"
    /\ EndThreads
    /\ UNCHANGED <<fgCfg, fgAdded, fgCont, nThreads, storeVars, repoVars, edits, backupDir>>

\* the exception has left menu(): the interpreter prints the traceback and
\* the process ends
Die ==
    /\ fgPc = "crashed"
    /\ fgPc' = "died"
    /\ EndThreads
    /\ UNCHANGED <<fgCfg, fgAdded, fgCont, nThreads, storeVars, repoVars, edits, backupDir>>


(***************************************************************************)
(* git commands and their results.  A command that depends on the remote   *)
(* or on the repository's state outside the model succeeds or fails.       *)
(***************************************************************************)
PushOutcomes == {"ok", "rejected", "error"}

Cmd(name, arg, rc) == [cmd |-> name, arg |-> arg, rc |-> rc]

\* the push with --force
PushArgsForce == "--force origin main"

\* "git push origin main"
PushArgs == "origin main"

\* 'git commit -m "..."'
CommitArgs == "-m"

\* the command lines of git that replace commits others may have
RewritesHistory(c) ==
    \/ c.cmd = "push" /\ c.arg \in {"--force origin main", "-f origin main",
                                     "--force-with-lease origin main", "origin +main"}
    \/ c.cmd = "commit" /\ c.arg = "--amend"
    \/ c.cmd \in {"rebase", "reset", "filter-branch"}

\* the process runs the command c
Issue(c) == rewrote' = (rewrote \/ RewritesHistory(c))

\* a submenu input of a handler
SubChoice == fgOps < OpsBound /\ fgOps' = fgOps + 1

\* the sequences that list the members of S once each
Orderings(S) ==
    {q \in [1..Cardinality(S) -> S] : \A i, j \in 1..Cardinality(S) : q[i] = q[j] => i = j}

(***************************************************************************)
(* track_files                                                             *)
(***************************************************************************)
TrackFilesEnter ==
    /\ MenuChoice
    /\ LET r == FgLoad IN
         IF r.raised THEN Crash(r.exc)
         ELSE /\ fgPc' = "track_menu"
              /\ fgCfg' = r.cfg
              /\ fgAdded' = <<>>
              /\ fgCont' = ""
    /\ UNCHANGED <<storeVars, repoVars, schedVars, edits, backupDir>>

\* choice "1" appending the file whether or not git add succeeded
TrackFileIgnoringFailure ==
    /\ fgPc = "track_menu"
    /\ SubChoice
    /\ \E f \in Files, ok \in BOOLEAN :
         LET tf == fgCfg["tracked_files"] IN
         IF Exists(wt, f) /\ ~tf.all /\ ~InList(f, tf.files)
         THEN /\ wt' = IF ok THEN GitAdd(wt, f) ELSE wt
              /\ BeginSave(Put(fgCfg, "tracked_files", ExplicitSet(Append(tf.files, f))),
                           "track", Append(fgAdded, f))
         ELSE UNCHANGED <<wt, cfgFile, fgPc, fgCfg, fgAdded, fgCont>>
    /\ UNCHANGED <<keyFile, keyGen, unpushed, rewrote, gitDir, schedVars, edits, backupDir>>

\* choice "1": one file.  The paths of the model are not in .gitignore.
TrackFile ==
    /\ fgPc = "track_menu"
    /\ SubChoice
    /\ \E f \in Files, ok \in BOOLEAN :
         LET tf == fgCfg["tracked_files"] IN
         IF Exists(wt, f) /\ ~tf.all /\ ~InList(f, tf.files) /\ ok
         THEN /\ wt' = GitAdd(wt, f)
              /\ BeginSave(Put(fgCfg, "tracked_files", ExplicitSet(Append(tf.files, f))),
                           "track", Append(fgAdded, f))
         ELSE UNCHANGED <<wt, cfgFile, fgPc, fgCfg, fgAdded, fgCont>>
    /\ UNCHANGED <<keyFile, keyGen, unpushed, rewrote, gitDir, schedVars, edits, backupDir>>

Patterns == {"*.txt", "a*"}

\* fnmatch of the model's paths
Matches(pattern) == IF pattern = "*.txt" THEN Files ELSE {"a.txt"}

(* The loop "for file in matched_files" of choice "2".  okSet: the paths    *)
(* whose git add succeeds.  With tracked_files "all", "file not in" is a    *)
(* substring test, which no path of the model passes, and .append raises    *)
(* AttributeError after the first git add that succeeds.                    *)
RECURSIVE PatternLoop(_, _, _, _, _)
PatternLoop(tf, added, w, matched, okSet) ==
    IF matched = <<>> THEN [tf |-> tf, added |-> added, wt |-> w, raised |-> FALSE]
    ELSE LET f == Head(matched) IN
         IF ~tf.all /\ InList(f, tf.files)
         THEN PatternLoop(tf, added, w, Tail(matched), okSet)
         ELSE IF f \notin okSet
         THEN PatternLoop(tf, added, w, Tail(matched), okSet)
         ELSE IF tf.all
         THEN [tf |-> tf, added |-> added, wt |-> GitAdd(w, f), raised |-> TRUE]
         ELSE PatternLoop(ExplicitSet(Append(tf.files, f)), Append(added, f),
                          GitAdd(w, f), Tail(matched), okSet)

TrackPattern ==
    /\ fgPc = "track_menu"
    /\ SubChoice
    /\ \E pattern \in Patterns, okSet \in SUBSET Files :
         \E matched \in Orderings({f \in Matches(pattern) : Exists(wt, f)}) :
           LET res == PatternLoop(fgCfg["tracked_files"], fgAdded, wt, matched, okSet) IN
           /\ wt' = res.wt
           /\ IF res.raised THEN Crash("AttributeError") /\ UNCHANGED cfgFile
              ELSE IF matched # <<>> /\ res.added # <<>>
              THEN BeginSave(Put(fgCfg, "tracked_files", res.tf), "track", res.added)
              ELSE UNCHANGED <<cfgFile, fgPc, fgCfg, fgAdded, fgCont>>
    /\ UNCHANGED <<keyFile, keyGen, unpushed, rewrote, gitDir, schedVars, edits, backupDir>>

\* choice "3" keeping the explicit list next to the marker
TrackAllMerging ==
    /\ fgPc = "track_menu"
    /\ SubChoice
    /\ \E ok \in BOOLEAN :
         IF ok
         THEN /\ wt' = GitAddAll(wt)
              /\ BeginSave(Put(fgCfg, "tracked_files",
                               [all |-> TRUE, files |-> fgCfg["tracked_files"].files]),
                           "track", fgAdded)
         ELSE UNCHANGED <<wt, cfgFile, fgPc, fgCfg, fgAdded, fgCont>>
    /\ UNCHANGED <<keyFile, keyGen, unpushed, rewrote, gitDir, schedVars, edits, backupDir>>

\* choice "3": git add . and tracked_files = "all"
TrackAll ==
    /\ fgPc = "track_menu"
    /\ SubChoice
    /\ \E ok \in BOOLEAN :
         IF ok
         THEN /\ wt' = GitAddAll(wt)
              /\ BeginSave(Put(fgCfg, "tracked_files", AllFiles), "track", fgAdded)
         ELSE UNCHANGED <<wt, cfgFile, fgPc, fgCfg, fgAdded, fgCont>>
    /\ UNCHANGED <<keyFile, keyGen, unpushed, rewrote, gitDir, schedVars, edits, backupDir>>

\* choice "4", and "if files_added:" after the loop
TrackReturn ==
    /\ fgPc = "track_menu"
    /\ IF fgAdded # <<>>
       THEN /\ fgPc' = "commit"
            /\ fgCont' = "track"
            /\ UNCHANGED <<fgCfg, fgAdded>>
       ELSE ToMenu
    /\ UNCHANGED <<fgOps, storeVars, repoVars, schedVars, edits, backupDir>>

(***************************************************************************)
(* remove_from_tracking                                                    *)
(***************************************************************************)
RemoveEnter ==
    /\ MenuChoice
    /\ LET r == FgLoad IN
         IF r.raised THEN Crash(r.exc)
         ELSE /\ fgPc' = "remove_loop"
              /\ fgCfg' = r.cfg
              /\ fgAdded' = <<>>
              /\ fgCont' = ""
    /\ UNCHANGED <<storeVars, repoVars, schedVars, edits, backupDir>>

\* git rm --cached <f> succeeds on a path of the index
CanRmCached(w, f) == w[f] \in {"clean", "modified", "staged"}

\* a file name; "f in tracked_files" is a substring test when tracked_files
\* is "all", which no path of the model passes
RemoveFile ==
    /\ fgPc = "remove_loop"
    /\ SubChoice
    /\ \E f \in Files, ok \in BOOLEAN :
         LET tf == fgCfg["tracked_files"] IN
         IF ~tf.all /\ InList(f, tf.files) /\ ok /\ CanRmCached(wt, f)
         THEN /\ wt' = GitRmCached(wt, f)
              /\ fgCfg' = Put(fgCfg, "tracked_files", ExplicitSet(ListRemove(tf.files, f)))
              /\ fgAdded' = Append(fgAdded, f)
              /\ UNCHANGED <<fgPc, fgCont>>
         ELSE UNCHANGED <<wt, fgPc, fgCfg, fgAdded, fgCont>>
    /\ UNCHANGED <<storeVars, unpushed, rewrote, gitDir, schedVars, edits, backupDir>>

\* "done", and "if removed_files:" after the loop
RemoveDone ==
    /\ fgPc = "remove_loop"
    /\ IF fgAdded # <<>>
       THEN BeginSave(fgCfg, "remove", fgAdded)
       ELSE ToMenu /\ UNCHANGED cfgFile
    /\ UNCHANGED <<fgOps, keyFile, keyGen, repoVars, schedVars, edits, backupDir>>

(***************************************************************************)
(* sync_with_remote                                                        *)
(***************************************************************************)
\* the paths sync_with_remote stages from an explicit list
RECURSIVE SyncAdds(_, _)
SyncAdds(files, w) ==
    IF files = <<>> THEN <<>>
    ELSE (IF Exists(w, Head(files)) /\ StatusPath(w, Head(files))
             THEN <<Head(files)>> ELSE <<>>) \o SyncAdds(Tail(files), w)

RECURSIVE AddEach(_, _)
AddEach(w, files) ==
    IF files = <<>> THEN w ELSE AddEach(GitAdd(w, Head(files)), Tail(files))

\* up to "if changes_to_commit:".  failAt: the git add that fails, 0 for none
SyncStage ==
    /\ MenuChoice
    /\ LET r == FgLoad IN
         IF r.raised THEN Crash(r.exc) /\ UNCHANGED wt
         ELSE LET tf == r.cfg["tracked_files"]
                  adds == IF tf.all THEN <<".">> ELSE SyncAdds(tf.files, wt)
              IN  \E failAt \in 0..Len(adds) :
                    LET done == IF failAt = 0 THEN adds ELSE SubSeq(adds, 1, failAt - 1) IN
                    /\ wt' = IF tf.all
                             THEN (IF failAt = 0 THEN GitAddAll(wt) ELSE wt)
                             ELSE AddEach(wt, done)
                    /\ IF failAt = 0 /\ adds # <<>>
                       THEN /\ fgPc' = "commit"
                            /\ fgCont' = "sync"
                            /\ fgCfg' = r.cfg
                            /\ fgAdded' = <<>>
                       ELSE ToMenu
    /\ UNCHANGED <<storeVars, unpushed, rewrote, gitDir, schedVars, edits, backupDir>>

(***************************************************************************)
(* git commit and git push of the foreground: sync_with_remote, the end of *)
(* track_files, and the true branch of remove_from_tracking.  A failure is *)
(* printed, and the handler returns.                                       *)
(***************************************************************************)
FgCommit ==
    /\ fgPc = "commit"
    /\ \E ok \in BOOLEAN :
         IF ok /\ CanCommit(wt)
         THEN /\ wt' = GitCommit(wt)
              /\ unpushed' = TRUE
              /\ fgPc' = "push"
              /\ UNCHANGED <<fgCfg, fgAdded, fgCont>>
         ELSE ToMenu /\ UNCHANGED <<wt, unpushed>>
    /\ Issue(Cmd("commit", CommitArgs, ""))
    /\ UNCHANGED <<fgOps, gitDir, storeVars, schedVars, edits, backupDir>>

FgPush ==
    /\ fgPc = "push"
    /\ \E out \in PushOutcomes :
         /\ unpushed' = IF out = "ok" THEN FALSE ELSE unpushed
         /\ hist' = IF out = "ok" THEN Pushed(hist) ELSE hist
         /\ Issue(Cmd("push", PushArgs, out))
    /\ ToMenu
    /\ UNCHANGED <<fgOps, wt, gitDir, storeVars, nThreads, schedPc, errorCount, schedTracked,
                   schedInterval, schedLoad, schedCmds, schedStop, schedWait, edits, backupDir>>

(***************************************************************************)
(* The user, or another program, changes or creates a file.                *)
(***************************************************************************)
EnvEdit ==
    /\ edits < MaxEdits
    /\ edits' = edits + 1
    /\ \E f \in Files :
         /\ wt[f] \in {"absent", "clean"}
         /\ wt' = [wt EXCEPT ![f] = "modified"]
    /\ UNCHANGED <<unpushed, rewrote, gitDir, storeVars, fgVars, schedVars, backupDir>>


(***************************************************************************)
(* auto_commit_process, one thread t.                                      *)
(***************************************************************************)
\* the threshold test with > for >=
ThresholdReachedLate(ec) == ec > ErrorThreshold

\* "if error_count >= 3"
ThresholdReached(ec) == ec >= ErrorThreshold

SchedSet(t, pc, ec, stop, wait) ==
    /\ schedPc' = [schedPc EXCEPT ![t] = pc]
    /\ errorCount' = [errorCount EXCEPT ![t] = ec]
    /\ schedStop' = [schedStop EXCEPT ![t] = stop]
    /\ schedWait' = [schedWait EXCEPT ![t] = wait]

\* pc, with error_count as it is
Goto(t, pc) == SchedSet(t, pc, errorCount[t], "", 0)

\* time.sleep(30) at the end of the loop body
EndCycle(t, ec) == SchedSet(t, "sleep", ec, "", CycleSleep)

\* a return statement
Return(t, why) == SchedSet(t, "done", errorCount[t], why, 0)

\* "except subprocess.CalledProcessError": count, return at the threshold,
\* else fall through to the sleep at the end of the loop body
InnerExcept(t) ==
    LET ec == errorCount[t] + 1 IN
    IF ThresholdReached(ec) THEN SchedSet(t, "done", ec, "threshold", 0)
    ELSE EndCycle(t, ec)

\* "except Exception": count, return at the threshold, else time.sleep(60)
OuterExcept(t) ==
    LET ec == errorCount[t] + 1 IN
    IF ThresholdReached(ec) THEN SchedSet(t, "done", ec, "threshold", 0)
    ELSE SchedSet(t, "sleep", ec, "", ErrorSleep)

Log(t, cmds) == schedCmds' = [schedCmds EXCEPT ![t] = schedCmds[t] \o cmds]

\* a sync attempt of a thread all of whose cycles so far failed in the sync
HistAttempt(t) ==
    hist' = [hist EXCEPT ![t] =
               IF hist[t].allFailed
               THEN [hist[t] EXCEPT !.attempts =
                        IF @ < MaxCount THEN @ + 1 ELSE MaxCount]
               ELSE hist[t]]

\* a cycle ended otherwise than by a failed sync
HistOther(t) ==
    hist' = [hist EXCEPT ![t] = [attempts |-> 0, allFailed |-> FALSE, owes |-> hist[t].owes]]

\* the thread made a commit
HistCommitted(t) == hist' = [hist EXCEPT ![t].owes = TRUE]

Loaded(r) ==
    [raised |-> r.raised, exc |-> r.exc, raw |-> r.raw,
     auto |-> Get(r.cfg, "auto_commit", FALSE),
     daemon |-> Get(r.cfg, "daemon_mode", FALSE)]

(* From the result r of load_config to the change detection: the flags,    *)
(* tracked_files, and the check of git config --list (userOk: user.name    *)
(* and user.email are in its output).                                      *)
AfterLoad(t, r, userOk) ==
    /\ schedLoad' = [schedLoad EXCEPT ![t] = Loaded(r)]
    /\ IF r.raised
       THEN /\ OuterExcept(t)
            /\ HistOther(t)
            /\ schedCmds' = [schedCmds EXCEPT ![t] = <<>>]
            /\ UNCHANGED <<schedTracked, schedInterval>>
       ELSE IF ~FlagsEnabled(r.cfg)
       THEN /\ Return(t, "disabled")
            /\ schedCmds' = [schedCmds EXCEPT ![t] = <<>>]
            /\ UNCHANGED <<schedTracked, schedInterval, hist>>
       ELSE /\ schedTracked' =
                 [schedTracked EXCEPT ![t] = Get(r.cfg, "tracked_files", ExplicitSet(<<>>))]
            /\ schedInterval' =
                 [schedInterval EXCEPT ![t] = Get(r.cfg, "commit_interval", DefaultInterval)]
            /\ schedCmds' = [schedCmds EXCEPT ![t] =
                                <<Cmd("config", "--list", IF userOk THEN "ok" ELSE "nouser")>>]
            /\ UNCHANGED hist
            /\ IF userOk THEN Goto(t, "detect") ELSE Return(t, "no_git_user")

\* load_config, "if not os.path.exists(CONFIG_FILE)"
SchedLoadExists(t) ==
    /\ ProcessAlive
    /\ schedPc[t] = "load"
    /\ IF cfgFile.kind = "missing"
       THEN \E userOk \in BOOLEAN : AfterLoad(t, Returned(DefaultConfig, "missing"), userOk)
       ELSE /\ Goto(t, "open")
            /\ schedCmds' = [schedCmds EXCEPT ![t] = <<>>]
            /\ UNCHANGED <<schedTracked, schedInterval, schedLoad, hist>>
    /\ UNCHANGED <<nThreads, storeVars, repoVars, fgVars, edits, backupDir>>

\* load_config from open() on, then up to the change detection
SchedLoadOpen(t) ==
    /\ ProcessAlive
    /\ schedPc[t] = "open"
    /\ \E userOk \in BOOLEAN :
         AfterLoad(t, LoadConfigOpen(cfgFile, LoadKey(keyFile, keyGen)), userOk)
    /\ UNCHANGED <<nThreads, storeVars, repoVars, fgVars, edits, backupDir>>

\* the status commands of the loop over an explicit list: one per path on
\* disk, up to the first that reports a change
RECURSIVE DetectCmds(_, _)
DetectCmds(files, w) ==
    IF files = <<>> THEN <<>>
    ELSE LET f == Head(files) IN
         IF ~Exists(w, f) THEN DetectCmds(Tail(files), w)
         ELSE IF StatusPath(w, f) THEN <<Cmd("status", f, "changed")>>
         ELSE <<Cmd("status", f, "")>> \o DetectCmds(Tail(files), w)

\* the loop with the os.path.exists test left out
RECURSIVE DetectLoopNoExists(_, _)
DetectLoopNoExists(files, w) ==
    IF files = <<>> THEN FALSE
    ELSE IF StatusPath(w, Head(files)) THEN TRUE
    ELSE DetectLoopNoExists(Tail(files), w)

\* "for file in tracked_files": a path not on disk is passed over, the
\* first path whose status prints something sets changes_detected and
\* breaks
RECURSIVE DetectLoop(_, _)
DetectLoop(files, w) ==
    IF files = <<>> THEN FALSE
    ELSE IF ~Exists(w, Head(files)) THEN DetectLoop(Tail(files), w)
    ELSE IF StatusPath(w, Head(files)) THEN TRUE
    ELSE DetectLoop(Tail(files), w)

\* changes_detected from the status of the whole tree, whatever is tracked
ChangesDetectedAnyStatus(tf, w) == StatusAny(w)

\* changes_detected
ChangesDetected(tf, w) ==
    IF tf.all THEN StatusAny(w) ELSE DetectLoop(tf.files, w)

SchedDetect(t) ==
    /\ ProcessAlive
    /\ schedPc[t] = "detect"
    /\ LET tf == schedTracked[t] IN
         /\ Log(t, IF tf.all
                   THEN <<Cmd("status", ".", IF StatusAny(wt) THEN "changed" ELSE "")>>
                   ELSE DetectCmds(tf.files, wt))
         /\ IF ChangesDetected(tf, wt)
            THEN Goto(t, "stage") /\ UNCHANGED hist
            ELSE EndCycle(t, errorCount[t]) /\ HistOther(t)
    /\ schedLoad' = [schedLoad EXCEPT ![t] = NoLoad]
    /\ UNCHANGED <<nThreads, schedTracked, schedInterval, storeVars, repoVars, fgVars, edits, backupDir>>

\* the paths of an explicit list that are on disk
RECURSIVE OnDisk(_, _)
OnDisk(files, w) ==
    IF files = <<>> THEN <<>>
    ELSE (IF Exists(w, Head(files)) THEN <<Head(files)>> ELSE <<>>) \o OnDisk(Tail(files), w)

AddCmds(files, failAt) ==
    [i \in 1..Len(files) |-> Cmd("add", files[i], IF i = failAt THEN "error" ELSE "ok")]

\* "Stage changes".  failAt: the git add that fails, 0 for none; check=True
\* raises at the first failure
SchedStage(t) ==
    /\ ProcessAlive
    /\ schedPc[t] = "stage"
    /\ LET tf == schedTracked[t]
           adds == IF tf.all THEN <<".">> ELSE OnDisk(tf.files, wt)
       IN  \E failAt \in 0..Len(adds) :
             LET run == IF failAt = 0 THEN adds ELSE SubSeq(adds, 1, failAt)
                 done == IF failAt = 0 THEN adds ELSE SubSeq(adds, 1, failAt - 1)
             IN  /\ wt' = IF tf.all
                          THEN (IF failAt = 0 THEN GitAddAll(wt) ELSE wt)
                          ELSE AddEach(wt, done)
                 /\ Log(t, AddCmds(run, failAt))
                 /\ IF failAt = 0 THEN Goto(t, "verify") ELSE InnerExcept(t)
    /\ HistAttempt(t)
    /\ UNCHANGED <<nThreads, schedTracked, schedInterval, schedLoad, unpushed, rewrote, gitDir, storeVars, fgVars, edits, backupDir>>

\* "Verify changes were staged": git status --porcelain of the whole tree
SchedVerify(t) ==
    /\ ProcessAlive
    /\ schedPc[t] = "verify"
    /\ Log(t, <<Cmd("status", ".", IF StatusAny(wt) THEN "changed" ELSE "")>>)
    /\ IF StatusAny(wt)
       THEN Goto(t, "commit") /\ UNCHANGED hist
       ELSE EndCycle(t, errorCount[t]) /\ HistOther(t)
    /\ UNCHANGED <<nThreads, schedTracked, schedInterval, schedLoad, storeVars, repoVars, fgVars, edits, backupDir>>

\* git commit, check=True: it fails when nothing is staged
SchedCommit(t) ==
    /\ ProcessAlive
    /\ schedPc[t] = "commit"
    /\ \E ok \in BOOLEAN :
         IF ok /\ CanCommit(wt)
         THEN /\ wt' = GitCommit(wt)
              /\ unpushed' = TRUE
              /\ Log(t, <<Cmd("commit", CommitArgs, "ok")>>)
              /\ Goto(t, "push")
              /\ HistCommitted(t)
         ELSE /\ Log(t, <<Cmd("commit", CommitArgs, "error")>>)
              /\ InnerExcept(t)
              /\ UNCHANGED <<wt, unpushed, hist>>
    /\ Issue(Cmd("commit", CommitArgs, ""))
    /\ UNCHANGED <<nThreads, schedTracked, schedInterval, schedLoad, gitDir, storeVars, fgVars, edits, backupDir>>

\* git push origin main, check=True; on success error_count = 0
SchedPush(t) ==
    /\ ProcessAlive
    /\ schedPc[t] = "push"
    /\ \E out \in PushOutcomes :
         /\ Log(t, <<Cmd("push", PushArgs, out)>>)
         /\ Issue(Cmd("push", PushArgs, out))
         /\ IF out = "ok"
            THEN /\ unpushed' = FALSE
                 /\ EndCycle(t, 0)
                 /\ hist' = Pushed([hist EXCEPT ![t] = [attempts |-> 0, allFailed |-> FALSE,
                                                         owes |-> FALSE]])
            ELSE /\ InnerExcept(t)
                 /\ UNCHANGED <<unpushed, hist>>
    /\ UNCHANGED <<nThreads, schedTracked, schedInterval, schedLoad, wt, gitDir, storeVars, fgVars, edits, backupDir>>

\* a thread that saves the configuration when it wakes
SchedWakeSaving(t) ==
    /\ ProcessAlive
    /\ schedPc[t] = "sleep"
    /\ Goto(t, "load")
    /\ cfgFile' = Empty
    /\ UNCHANGED <<nThreads, schedTracked, schedInterval, schedLoad, schedCmds, hist,
                   keyFile, keyGen, repoVars, fgVars, edits, backupDir>>

\* the sleep is over: the next iteration of "while True"
SchedWake(t) ==
    /\ ProcessAlive
    /\ schedPc[t] = "sleep"
    /\ Goto(t, "load")
    /\ UNCHANGED <<nThreads, schedTracked, schedInterval, schedLoad, schedCmds, hist,
                   storeVars, repoVars, fgVars, edits, backupDir>>

SchedStep(t) ==
    \/ SchedLoadExists(t)
    \/ SchedLoadOpen(t)
    \/ SchedDetect(t)
    \/ SchedStage(t)
    \/ SchedVerify(t)
    \/ SchedCommit(t)
    \/ SchedPush(t)
    \/ SchedWake(t)

Foreground ==
    \/ Startup
    \/ EditConfigAuto
    \/ EditConfigDaemon
    \/ EditConfigInterval
    \/ SaveWrite
    \/ ResetConfig
    \/ InitializeGit
    \/ TrackFilesEnter
    \/ TrackFile
    \/ TrackPattern
    \/ TrackAll
    \/ TrackReturn
    \/ RemoveEnter
    \/ RemoveFile
    \/ RemoveDone
    \/ SyncStage
    \/ FgCommit
    \/ FgPush
    \/ Exit
    \/ Die

Next ==
    \/ Foreground
    \/ \E t \in Threads : SchedStep(t)
    \/ EnvEdit

Spec == Init /\ [][Next]_vars

(***************************************************************************)
(* BackupManager and backup_menu.  A file name is the sequence of its      *)
(* parts between "_" characters, which is what str.split("_") returns and  *)
(* what the f-strings join.                                                *)
(***************************************************************************)
BackupDates == {"20260101", "20260102"}
BackupTimes == {"090000", "100000"}

\* datetime.now().strftime('%Y%m%d_%H%M%S')
Timestamp(date, time) == <<date, time>>

\* f"backup_{timestamp}"
BackupBase(timestamp) == <<"backup">> \o timestamp

\* f"{backup_base}_config.json" and f"{backup_base}_key.enc"
ConfigBackup(base) == base \o <<"config.json">>
KeyBackup(base) == base \o <<"key.enc">>

\* shutil.copy2(src, dst)
Copy(dir, name, content) ==
    [n \in DOMAIN dir \cup {name} |-> IF n = name THEN content ELSE dir[n]]

\* create_backup
CreateBackup(dir, timestamp, cfg, key) ==
    LET base == BackupBase(timestamp)
        d1 == IF cfg.kind # "missing" THEN Copy(dir, ConfigBackup(base), cfg) ELSE dir
    IN  IF key # NoKey THEN Copy(d1, KeyBackup(base), key) ELSE d1

\* list_backups: the keys are file.split("_")[1] of the files whose name
\* starts with "backup_"
ListBackups(dir) == {<<n[2]>> : n \in {m \in DOMAIN dir : m[1] = "backup"}}

\* restore_backup(timestamp): what it leaves in the configuration file
RestoredConfig(dir, timestamp, cfg) ==
    LET name == ConfigBackup(BackupBase(timestamp))
    IN  IF name \in DOMAIN dir THEN dir[name] ELSE cfg

\* restore_backup(timestamp): what it leaves in the key file
RestoredKey(dir, timestamp, key) ==
    LET name == KeyBackup(BackupBase(timestamp))
    IN  IF name \in DOMAIN dir THEN dir[name] ELSE key

\* menu choice backup_menu
BackupMenuEnter ==
    /\ MenuChoice
    /\ fgPc' = "backup_menu"
    /\ UNCHANGED <<fgCfg, fgAdded, fgCont, storeVars, repoVars, schedVars, edits, backupDir>>

\* choice "1"
BackupCreate ==
    /\ fgPc = "backup_menu"
    /\ SubChoice
    /\ \E date \in BackupDates, time \in BackupTimes :
         backupDir' = CreateBackup(backupDir, Timestamp(date, time), cfgFile, keyFile)
    /\ fgCont' = "created"
    /\ UNCHANGED <<fgPc, fgCfg, fgAdded, storeVars, repoVars, schedVars, edits>>

\* choice "3": the keys of list_backups are offered, and the one chosen is
\* passed to restore_backup
BackupRestore ==
    /\ fgPc = "backup_menu"
    /\ SubChoice
    /\ ListBackups(backupDir) # {}
    /\ \E timestamp \in ListBackups(backupDir) :
         /\ cfgFile' = RestoredConfig(backupDir, timestamp, cfgFile)
         /\ keyFile' = RestoredKey(backupDir, timestamp, keyFile)
    /\ fgCont' = "restored"
    /\ UNCHANGED <<fgPc, fgCfg, fgAdded, keyGen, repoVars, schedVars, edits, backupDir>>

\* choice "4"
BackupReturn ==
    /\ fgPc = "backup_menu"
    /\ ToMenu
    /\ UNCHANGED <<fgOps, storeVars, repoVars, schedVars, edits, backupDir>>

\* the configuration file and the key file of an earlier run, flags off
BackupStores ==
    {<<Missing, NoKey, 0>>, <<Missing, 1, 1>>, <<Garbage, 1, 1>>,
     <<EncryptData(DefaultConfig, 1), 1, 1>>,
     <<EncryptData(Put(DefaultConfig, "tracked_files", AllFiles), 1), 1, 1>>}

\* the backups directory: none yet, or the backup an earlier run made of a
\* first configuration and its key
BackupDirs ==
    {NoBackups,
     CreateBackup(NoBackups, Timestamp("20260101", "090000"), EncryptData(DefaultConfig, 1), 1)}

BackupInit ==
    /\ \E st \in BackupStores :
         /\ cfgFile = st[1]
         /\ keyFile = st[2]
         /\ keyGen = st[3]
    /\ wt = [f \in Files |-> "clean"]
    /\ unpushed = FALSE
    /\ rewrote = FALSE
    /\ gitDir = TRUE
    /\ fgPc = "start"
    /\ fgCfg = DefaultConfig
    /\ fgAdded = <<>>
    /\ fgCont = ""
    /\ fgOps = 0
    /\ nThreads = 0
    /\ schedPc = [t \in Threads |-> "idle"]
    /\ errorCount = [t \in Threads |-> 0]
    /\ schedTracked = [t \in Threads |-> ExplicitSet(<<>>)]
    /\ schedInterval = [t \in Threads |-> DefaultInterval]
    /\ schedLoad = [t \in Threads |-> NoLoad]
    /\ schedCmds = [t \in Threads |-> <<>>]
    /\ schedStop = [t \in Threads |-> ""]
    /\ schedWait = [t \in Threads |-> 0]
    /\ hist = [t \in Threads |-> NoHist]
    /\ edits = 0
    /\ backupDir \in (IF keyGen = 0 THEN {NoBackups} ELSE BackupDirs)

BackupNext ==
    \/ Startup
    \/ BackupMenuEnter
    \/ BackupCreate
    \/ BackupRestore
    \/ BackupReturn
    \/ EditConfigDaemon
    \/ SaveWrite
    \/ ResetConfig
    \/ Exit
    \/ Die

SpecBackup == BackupInit /\ [][BackupNext]_vars

(***************************************************************************)
(* The program started in a folder that has no repository yet: the menu    *)
(* choices that run no git command, and initialize_git.  The configuration *)
(* an earlier run left has both flags off, so menu() starts no thread.     *)
(***************************************************************************)
SetupStores ==
    {<<Missing, NoKey, 0>>, <<Missing, 1, 1>>, <<Garbage, 1, 1>>,
     <<EncryptData(DefaultConfig, 1), 1, 1>>}

SetupInit ==
    /\ \E st \in SetupStores :
         /\ cfgFile = st[1]
         /\ keyFile = st[2]
         /\ keyGen = st[3]
    /\ wt \in {[f \in Files |-> "modified"], [f \in Files |-> "absent"]}
    /\ unpushed = FALSE
    /\ rewrote = FALSE
    /\ gitDir = FALSE
    /\ fgPc = "start"
    /\ fgCfg = DefaultConfig
    /\ fgAdded = <<>>
    /\ fgCont = ""
    /\ fgOps = 0
    /\ nThreads = 0
    /\ schedPc = [t \in Threads |-> "idle"]
    /\ errorCount = [t \in Threads |-> 0]
    /\ schedTracked = [t \in Threads |-> ExplicitSet(<<>>)]
    /\ schedInterval = [t \in Threads |-> DefaultInterval]
    /\ schedLoad = [t \in Threads |-> NoLoad]
    /\ schedCmds = [t \in Threads |-> <<>>]
    /\ schedStop = [t \in Threads |-> ""]
    /\ schedWait = [t \in Threads |-> 0]
    /\ hist = [t \in Threads |-> NoHist]
    /\ edits = 0
    /\ backupDir = NoBackups

SetupNext ==
    \/ Startup
    \/ EditConfigAuto
    \/ EditConfigDaemon
    \/ EditConfigInterval
    \/ SaveWrite
    \/ ResetConfig
    \/ InitializeGit
    \/ Exit
    \/ Die

SpecSetup == SetupInit /\ [][SetupNext]_vars

\* a started thread runs: its sleeps end and its calls return; a process
\* whose main thread raised ends
FairSpec == Spec /\ WF_vars(Die) /\ \A t \in Threads : WF_vars(SchedStep(t))

(***************************************************************************)
(* The same program when a git command of the sync sequence may never      *)
(* return: subprocess.run is called without a timeout.                     *)
(***************************************************************************)
SchedHang(t) ==
    /\ ProcessAlive
    /\ \/ schedPc[t] \in {"commit", "push"}
       \/ /\ schedPc[t] = "stage"
          /\ schedTracked[t].all \/ OnDisk(schedTracked[t].files, wt) # <<>>
    /\ schedPc' = [schedPc EXCEPT ![t] = "blocked"]
    /\ Log(t, <<Cmd(IF schedPc[t] = "stage" THEN "add" ELSE schedPc[t], "", "hang")>>)
    /\ UNCHANGED <<nThreads, errorCount, schedTracked, schedInterval, schedLoad, schedStop, schedWait,
                   hist, storeVars, repoVars, fgVars, edits, backupDir>>

NextBlocking ==
    \/ Next
    \/ \E t \in Threads : SchedHang(t)

SpecBlocking ==
    /\ Init /\ [][NextBlocking]_vars
    /\ WF_vars(Die) /\ \A t \in Threads : WF_vars(SchedStep(t))

(***************************************************************************)
(* The change detection on its own: a thread that has loaded a             *)
(* configuration with daemon_mode set, for every selection and every state *)
(* of the working tree.                                                    *)
(***************************************************************************)
DetectTracked ==
    {AllFiles, ExplicitSet(<<>>), ExplicitSet(<<"a.txt">>), ExplicitSet(<<"b.txt">>),
     ExplicitSet(<<"a.txt", "b.txt">>), ExplicitSet(<<"b.txt", "a.txt">>)}

DetectInit ==
    /\ \E tf \in DetectTracked :
         LET cfg == Put(Put(DefaultConfig, "tracked_files", tf), "daemon_mode", TRUE) IN
         /\ cfgFile = EncryptData(cfg, 1)
         /\ schedTracked = [t \in Threads |-> IF t = 1 THEN tf ELSE ExplicitSet(<<>>)]
    /\ keyFile = 1
    /\ keyGen = 1
    /\ wt \in [Files -> WtStates]
    /\ unpushed = FALSE
    /\ rewrote = FALSE
    /\ gitDir = TRUE
    /\ fgPc = "menu"
    /\ fgCfg = DefaultConfig
    /\ fgAdded = <<>>
    /\ fgCont = ""
    /\ fgOps = 0
    /\ nThreads = 1
    /\ schedPc = [t \in Threads |-> IF t = 1 THEN "detect" ELSE "idle"]
    /\ errorCount = [t \in Threads |-> 0]
    /\ schedInterval = [t \in Threads |-> DefaultInterval]
    /\ schedLoad = [t \in Threads |->
                      IF t = 1 THEN [NoLoad EXCEPT !.raw = "token", !.daemon = TRUE]
                      ELSE NoLoad]
    /\ schedCmds = [t \in Threads |->
                      IF t = 1 THEN <<Cmd("config", "--list", "ok")>> ELSE <<>>]
    /\ schedStop = [t \in Threads |-> ""]
    /\ schedWait = [t \in Threads |-> 0]
    /\ hist = [t \in Threads |-> NoHist]
    /\ edits = 0
    /\ backupDir = NoBackups

DetectNext == \E t \in Threads : SchedDetect(t)

SpecDetect == DetectInit /\ [][DetectNext]_vars

(***************************************************************************)
(* One thread with nothing beside it: menu() has started it and waits at   *)
(* its prompt, and nothing else writes to the folder.  Every selection and *)
(* every state of the working tree.                                        *)
(***************************************************************************)
AloneInit ==
    /\ \E tf \in DetectTracked :
         cfgFile = EncryptData(Put(Put(DefaultConfig, "tracked_files", tf), "daemon_mode", TRUE), 1)
    /\ keyFile = 1
    /\ keyGen = 1
    /\ wt \in [Files -> WtStates]
    /\ unpushed = FALSE
    /\ rewrote = FALSE
    /\ gitDir = TRUE
    /\ fgPc = "menu"
    /\ fgCfg = DefaultConfig
    /\ fgAdded = <<>>
    /\ fgCont = ""
    /\ fgOps = 0
    /\ nThreads = 1
    /\ schedPc = [t \in Threads |-> IF t = 1 THEN "load" ELSE "idle"]
    /\ errorCount = [t \in Threads |-> 0]
    /\ schedTracked = [t \in Threads |-> ExplicitSet(<<>>)]
    /\ schedInterval = [t \in Threads |-> DefaultInterval]
    /\ schedLoad = [t \in Threads |-> NoLoad]
    /\ schedCmds = [t \in Threads |-> <<>>]
    /\ schedStop = [t \in Threads |-> ""]
    /\ schedWait = [t \in Threads |-> 0]
    /\ hist = [t \in Threads |-> NoHist]
    /\ edits = 0
    /\ backupDir = NoBackups

AloneNext == \E t \in Threads : SchedStep(t)

SpecAlone == AloneInit /\ [][AloneNext]_vars

(***************************************************************************)
(* save_config followed by load_config, on their own: any configuration,   *)
(* with or without an earlier file and key.                                *)
(***************************************************************************)
StoredTracked ==
    {AllFiles, ExplicitSet(<<>>), ExplicitSet(<<"a.txt">>),
     ExplicitSet(<<"a.txt", "b.txt">>), ExplicitSet(<<"b.txt", "a.txt">>)}

StoredIntervals == {0, 15, 30, -5}

BaseConfigs ==
    {[repo_url |-> u, tracked_files |-> tf, auto_commit |-> a, daemon_mode |-> d] :
        u \in {"", "https://example.org/r.git"}, tf \in StoredTracked,
        a \in BOOLEAN, d \in BOOLEAN}

ValidConfigs ==
    BaseConfigs
    \cup {Put(c, "commit_interval", n) : c \in BaseConfigs, n \in StoredIntervals}
    \cup {Put(Put(c, "commit_interval", n), "github_token", "ghp_token") :
            c \in BaseConfigs, n \in StoredIntervals}

StoreInit ==
    /\ \E st \in {<<Missing, NoKey, 0>>, <<Missing, 1, 1>>,
                  <<EncryptData(DefaultConfig, 1), 1, 1>>} :
         /\ cfgFile = st[1]
         /\ keyFile = st[2]
         /\ keyGen = st[3]
    /\ fgCfg \in ValidConfigs
    /\ fgPc = "call_save"
    /\ wt = [f \in Files |-> "clean"]
    /\ unpushed = FALSE
    /\ rewrote = FALSE
    /\ gitDir = TRUE
    /\ fgAdded = <<>>
    /\ fgCont = ""
    /\ fgOps = 0
    /\ nThreads = 0
    /\ schedPc = [t \in Threads |-> "idle"]
    /\ errorCount = [t \in Threads |-> 0]
    /\ schedTracked = [t \in Threads |-> ExplicitSet(<<>>)]
    /\ schedInterval = [t \in Threads |-> DefaultInterval]
    /\ schedLoad = [t \in Threads |-> NoLoad]
    /\ schedCmds = [t \in Threads |-> <<>>]
    /\ schedStop = [t \in Threads |-> ""]
    /\ schedWait = [t \in Threads |-> 0]
    /\ hist = [t \in Threads |-> NoHist]
    /\ edits = 0
    /\ backupDir = NoBackups

\* save_config(fgCfg): open(CONFIG_FILE, "w")
StoreSaveOpen ==
    /\ fgPc = "call_save"
    /\ cfgFile' = Empty
    /\ fgPc' = "save_write"
    /\ UNCHANGED <<keyFile, keyGen, fgCfg, fgAdded, fgCont, fgOps, repoVars, schedVars, edits, backupDir>>

\* save_config(fgCfg): file.write(encrypt_data(config)) and the close
StoreSaveWrite ==
    /\ fgPc = "save_write"
    /\ cfgFile' = EncryptData(fgCfg, LoadKey(keyFile, keyGen))
    /\ keyFile' = LoadKey(keyFile, keyGen)
    /\ keyGen' = KeysGenerated(keyFile, keyGen)
    /\ fgPc' = "saved"
    /\ UNCHANGED <<fgCfg, fgAdded, fgCont, fgOps, repoVars, schedVars, edits, backupDir>>

\* config = load_config()
StoreLoad ==
    /\ fgPc = "saved"
    /\ LET r == LoadConfig(cfgFile, LoadKey(keyFile, keyGen)) IN
         /\ fgPc' = IF r.raised THEN "raised" ELSE "loaded"
         /\ fgCfg' = r.cfg
    /\ UNCHANGED <<storeVars, fgAdded, fgCont, fgOps, repoVars, schedVars, edits, backupDir>>

StoreNext == StoreSaveOpen \/ StoreSaveWrite \/ StoreLoad

SpecStore == StoreInit /\ [][StoreNext]_vars

(***************************************************************************)
(* Properties.                                                             *)
(***************************************************************************)
Active(t) == schedPc[t] \notin {"idle", "done"}

\* the configuration the file holds, when it holds one under the current key
Stored == Backfill(JsonLoads(cfgFile.text))
HoldsConfig == cfgFile.kind = "token" /\ cfgFile.key = keyFile /\ cfgFile.text # NotJson

\* the flags of a configuration, read field by field
FlagOn(cfg) == cfg["auto_commit"] \/ cfg["daemon_mode"]

\* the thread is in the commit part of a sync: staged, not yet pushed
InSync(t) == schedPc[t] \in {"verify", "commit", "push"}

(* C1: a thread all of whose cycles detected changes and failed in the sync *)
(* makes at most 3 sync attempts; once the third has failed it has returned *)
(* at the threshold; a thread that returned never runs again and no thread  *)
(* is started after one returned at the threshold.                          *)
C1_ThresholdTermination ==
    /\ [](\A t \in Threads :
            hist[t].allFailed =>
              /\ hist[t].attempts <= 3
              /\ (hist[t].attempts = 3 /\ ~InSync(t)) =>
                    (schedPc[t] = "done" /\ schedStop[t] = "threshold")
              /\ schedStop[t] = "threshold" => hist[t].attempts = 3)
    /\ [][\A t \in Threads :
            /\ schedPc[t] = "done" => schedPc'[t] = "done"
            /\ schedStop[t] = "threshold" => nThreads' = nThreads]_vars

C1_Witness ==
    \E t \in Threads :
        hist[t].allFailed /\ hist[t].attempts = 3 /\ schedStop[t] = "threshold"

(* C2: at most one scheduler thread is active.                             *)
C2_SingleScheduler == Cardinality({t \in Threads : Active(t)}) <= 1

\* a thread runs, and an edit_config toggle has set the second flag
C2_Witness ==
    /\ fgPc = "menu"
    /\ \E t \in Threads : Active(t)
    /\ HoldsConfig /\ Stored["auto_commit"] /\ Stored["daemon_mode"]

(* C3: when an edit_config toggle that set auto_commit or daemon_mode to    *)
(* true has written the configuration and returned, a scheduler thread is  *)
(* active.                                                                 *)
C3_ToggleStartsScheduler ==
    [][(/\ fgPc = "save_write"
        /\ \/ fgCont = "edit_auto_on"
           \/ fgCont = "edit_daemon" /\ fgCfg["daemon_mode"]
        /\ fgPc' = "menu")
       => \E t \in Threads : Active(t)']_vars

(* C4: while the process runs,                                             *)
(* the step that ends load_config in a cycle has read the file as it       *)
(* is at that step; when the configuration it returned has both flags      *)
(* false the thread returns, having run no git command and changed         *)
(* nothing; the change detection runs only with a flag loaded true.        *)
C4_ReloadAndExitWhenDisabled ==
    /\ [][\A t \in Threads :
            (/\ schedPc[t] \in {"load", "open"}
             /\ schedPc'[t] \notin {"load", "open"}
             /\ schedStop'[t] # "exit") =>
              /\ schedLoad'[t].raw = cfgFile.kind
              /\ (HoldsConfig /\ schedPc[t] = "open") =>
                    /\ ~schedLoad'[t].raised
                    /\ schedLoad'[t].auto = Stored["auto_commit"]
                    /\ schedLoad'[t].daemon = Stored["daemon_mode"]
              /\ (~schedLoad'[t].raised /\ ~schedLoad'[t].auto /\ ~schedLoad'[t].daemon) =>
                    /\ schedPc'[t] = "done"
                    /\ schedStop'[t] = "disabled"
                    /\ schedCmds'[t] = <<>>
                    /\ wt' = wt /\ unpushed' = unpushed]_vars
    /\ [](\A t \in Threads :
            schedPc[t] = "detect" => (schedLoad[t].auto \/ schedLoad[t].daemon))

\* a thread, started with a flag set, returned on a stored configuration
\* with both flags false
C4_Witness ==
    \E t \in Threads :
        /\ schedStop[t] = "disabled"
        /\ schedLoad[t].raw = "token"
        /\ HoldsConfig /\ ~FlagOn(Stored)

\* no flag is set in the file, nor in a configuration being written to it
FlagsOff ==
    /\ HoldsConfig => ~FlagOn(Stored)
    /\ fgPc = "save_write" => ~FlagOn(fgCfg)

(* C5: once the flags are off in the file, and as long as they stay off,   *)
(* no load_config of a thread is followed by a change detection, and every *)
(* active thread eventually returns.                                       *)
C5_DisableStopsScheduler ==
    /\ [][\A t \in Threads :
            (FlagsOff /\ schedPc[t] \in {"load", "open"}) => schedPc'[t] # "detect"]_vars
    /\ (FlagsOff /\ \E t \in Threads : Active(t))
         ~> (~FlagsOff \/ \A t \in Threads : ~Active(t))

\* reset_config removed the file and the thread returned on the defaults
C5_Witness ==
    \E t \in Threads :
        /\ schedStop[t] = "disabled"
        /\ schedLoad[t].raw = "missing"
        /\ cfgFile = Missing

(* C6: the foreground is not between its staging and the end of its push   *)
(* while a scheduler thread is between its staging and the end of its push. *)
C6_SyncMutualExclusion ==
    ~(fgPc \in {"commit", "push"} /\ \E t \in Threads : InSync(t))

(* C7: no load_config of a scheduler thread reads the file truncated by a  *)
(* save_config in progress.                                                *)
C7_NoHalfWrittenRead == \A t \in Threads : schedLoad[t].raw # "empty"

(* C8: no load_config raises: neither the one of a scheduler thread nor    *)
(* the one that a foreground handler or menu() runs.                       *)
C8_LoadNeverRaises ==
    /\ \A t \in Threads : ~schedLoad[t].raised
    /\ ~(fgPc \in {"crashed", "died"} /\ fgCont \in {"InvalidToken", "FileNotFoundError"})

(* C9: load_config after save_config(c), with no write in between, returns *)
(* c.                                                                      *)
C9_RoundTrip ==
    [][fgPc = "saved" => (fgPc' = "loaded" /\ fgCfg' = fgCfg)]_vars

C9_Witness ==
    /\ fgPc = "loaded"
    /\ "github_token" \in DOMAIN fgCfg
    /\ fgCfg["tracked_files"] = ExplicitSet(<<"b.txt", "a.txt">>)
    /\ fgCfg["commit_interval"] = 15
    /\ fgCfg["daemon_mode"]

(* C10: a cycle in which a push was rejected has run a fetch and merge     *)
(* after it and pushed exactly once more.                                  *)
C10_ReconcileAndRetry ==
    \A t \in Threads :
        (/\ schedPc[t] \in {"sleep", "done"}
         /\ \E i \in 1..Len(schedCmds[t]) :
              schedCmds[t][i].cmd = "push" /\ schedCmds[t][i].rc = "rejected")
        => /\ \E j \in 1..Len(schedCmds[t]) : schedCmds[t][j].cmd \in {"fetch", "pull", "merge"}
           /\ Cardinality({j \in 1..Len(schedCmds[t]) : schedCmds[t][j].cmd = "push"}) = 2

\* the last command the thread ran in its cycle
LastCmd(t) == schedCmds[t][Len(schedCmds[t])]

(* C11: no command that rewrites history (a forced push among them) is run *)
(* by a scheduler thread or by the foreground; a push of a thread that     *)
(* fails is counted as an error and ends the cycle with the commit still   *)
(* unpushed, and a push of the foreground is followed by the menu.         *)
C11_NoForcePush ==
    /\ [](/\ ~rewrote
          /\ \A t \in Threads : \A i \in 1..Len(schedCmds[t]) :
                ~RewritesHistory(schedCmds[t][i]))
    /\ [][\A t \in Threads :
            (/\ schedPc[t] = "push"
             /\ schedPc'[t] # "push"
             /\ schedStop'[t] # "exit"
             /\ LastCmd(t)'.rc # "ok") =>
              /\ errorCount'[t] = errorCount[t] + 1
              /\ schedPc'[t] \in {"sleep", "done"}
              /\ unpushed' = unpushed]_vars
    /\ [][fgPc = "push" => fgPc' \in {"push", "menu"}]_vars

\* a thread's push was rejected and its cycle is over
C11_Witness ==
    \E t \in Threads :
        /\ schedPc[t] \in {"sleep", "done"}
        /\ schedCmds[t] # <<>>
        /\ LastCmd(t).cmd = "push"
        /\ LastCmd(t).rc = "rejected"
        /\ errorCount[t] >= 1
        /\ unpushed

(* C12: a thread whose git command in the stage, commit, push sequence     *)
(* does not return still ends the cycle: it reaches the sleep or returns.  *)
C12_SyncCallsTimeOut ==
    \A t \in Threads : (schedPc[t] = "blocked") ~> (schedPc[t] \in {"sleep", "done"})

(* C13: a thread that made a commit which is not pushed yet does not end a *)
(* cycle that reached the change detection without running git push in it. *)
C13_RetriesPendingPush ==
    \A t \in Threads :
        (schedPc[t] = "sleep" /\ hist[t].owes /\ schedCmds[t] # <<>>)
        => \E i \in 1..Len(schedCmds[t]) : schedCmds[t][i].cmd = "push"

\* the cycle reached the change detection and no command of it failed
CycleOk(t) ==
    /\ schedCmds[t] # <<>>
    /\ \A i \in 1..Len(schedCmds[t]) : schedCmds[t][i].rc \notin {"error", "rejected"}

(* C14: the sleep after a cycle without a failure lasts commit_interval    *)
(* minutes, the commit_interval being the one of the configuration the     *)
(* thread loaded in that cycle.                                            *)
C14_WaitsConfiguredInterval ==
    \A t \in Threads :
        (schedPc[t] = "sleep" /\ CycleOk(t)) => schedWait[t] = schedInterval[t] * 60

\* a command of the cycle's sync failed
CycleFailed(t) ==
    \E i \in 1..Len(schedCmds[t]) : schedCmds[t][i].rc \in {"error", "rejected"}

(* C15: the sleep after a cycle that failed is shorter than the sleep      *)
(* after a cycle that did not fail.                                        *)
C15_ShorterBackoff ==
    \A t \in Threads :
        (schedPc[t] = "sleep" /\ CycleFailed(t)) => schedWait[t] < CycleSleep

(* C16: error_count is 0 when a thread starts; while the process runs it   *)
(* changes only in a step of the sync: a push that succeeds sets it to 0,  *)
(* a command of the sync that fails adds 1; no other step changes it.      *)
C16_ErrorCountChanges ==
    /\ [](\A t \in Threads : schedPc[t] = "idle" => errorCount[t] = 0)
    /\ [][\A t \in Threads :
            schedStop'[t] # "exit" =>
              /\ (schedPc[t] = "push" /\ schedPc'[t] # "push" /\ LastCmd(t)'.rc = "ok")
                    => errorCount'[t] = 0
              /\ (/\ schedPc[t] \in {"stage", "commit", "push"}
                  /\ schedPc'[t] # schedPc[t]
                  /\ LastCmd(t)'.rc \in {"error", "rejected"})
                    => errorCount'[t] = errorCount[t] + 1
              /\ errorCount'[t] # errorCount[t] =>
                    /\ schedPc[t] \in {"stage", "commit", "push"}
                    /\ \/ LastCmd(t)'.rc = "ok" /\ schedPc[t] = "push"
                       \/ LastCmd(t)'.rc \in {"error", "rejected"}]_vars

(* C17: while the process runs, a thread that has returned did so because  *)
(* both flags were false in the configuration it loaded or because         *)
(* error_count reached the threshold.                                      *)
C17_StopReasons ==
    \A t \in Threads :
        schedPc[t] = "done" => schedStop[t] \in {"disabled", "threshold", "exit"}

(* C18: the step that takes menu() from its start to the menu prompt       *)
(* starts a thread exactly when the configuration load_config returns has  *)
(* auto_commit or daemon_mode set; without a configuration file it starts  *)
(* none, and it never starts more than one.                                *)
C18_StartupSpawn ==
    [][(fgPc = "start" /\ fgPc' # "start") =>
         /\ nThreads' <= 1
         /\ cfgFile = Missing => (fgPc' = "menu" /\ nThreads' = 0)
         /\ HoldsConfig' => (fgPc' = "menu" /\ (nThreads' = 1 <=> FlagOn(Stored)))
         /\ nThreads' = 1 => (HoldsConfig' /\ FlagOn(Stored) /\ schedPc'[1] = "load")]_vars

\* menu() has started a thread on a configuration with daemon_mode alone
C18_Witness ==
    /\ fgPc = "menu"
    /\ fgOps = 0
    /\ nThreads = 1
    /\ schedPc[1] = "load"
    /\ HoldsConfig /\ Stored["daemon_mode"] /\ ~Stored["auto_commit"]

\* the tool reports the path as changed
Reported(w, f) == StatusPath(w, f)

\* has_changes as the selection defines it
HasChanges(sel, w) ==
    IF sel.all THEN \E f \in Files : Reported(w, f)
    ELSE \E i \in 1..Len(sel.files) :
           w[sel.files[i]] \notin {"absent", "deleted", "del_staged"} /\ Reported(w, sel.files[i])

(* C19: the change detection of a cycle goes on to the staging exactly     *)
(* when has_changes holds of the selection and the working tree, and to    *)
(* the sleep otherwise; it raises nothing and counts no error, whatever    *)
(* paths of the selection are not on disk.                                 *)
C19_DetectionMatchesReference ==
    [][\A t \in Threads :
         (schedPc[t] = "detect" /\ schedPc'[t] # "detect") =>
           /\ schedPc'[t] \in {"stage", "sleep"}
           /\ schedPc'[t] = "stage" <=> HasChanges(schedTracked[t], wt)
           /\ errorCount'[t] = errorCount[t]
           /\ wt' = wt]_vars

\* a.txt is deleted and listed first: it is passed over, b.txt is asked
\* about and is unchanged
C19_Witness ==
    /\ schedPc[1] = "sleep"
    /\ schedTracked[1] = ExplicitSet(<<"a.txt", "b.txt">>)
    /\ wt["a.txt"] = "deleted"
    /\ wt["b.txt"] = "clean"
    /\ schedCmds[1] = <<Cmd("config", "--list", "ok"), Cmd("status", "b.txt", "")>>

(* C20: a thread whose tracked_files is the empty list is never in the     *)
(* stage, commit, push sequence; its change detection runs no command,     *)
(* changes nothing and goes to the sleep.                                  *)
C20_EmptySetShortCircuit ==
    /\ [](\A t \in Threads :
            schedTracked[t] = ExplicitSet(<<>>) =>
              schedPc[t] \notin {"stage", "verify", "commit", "push"})
    /\ [][\A t \in Threads :
            (/\ schedPc[t] = "detect"
             /\ schedTracked[t] = ExplicitSet(<<>>)
             /\ schedPc'[t] # "detect"
             /\ schedStop'[t] # "exit") =>
              /\ schedPc'[t] = "sleep"
              /\ schedCmds'[t] = schedCmds[t]
              /\ wt' = wt /\ unpushed' = unpushed]_vars

\* the cycle is over with git config --list as its only command, while
\* the working tree has changes
C20_Witness ==
    \E t \in Threads :
        /\ schedPc[t] = "sleep"
        /\ schedTracked[t] = ExplicitSet(<<>>)
        /\ schedCmds[t] = <<Cmd("config", "--list", "ok")>>
        /\ StatusAny(wt)

\* the paths the thread's staging finds on disk
ToStage(t) == OnDisk(schedTracked[t].files, wt)

(* C21: the staging of an explicit list runs git add on every path of the  *)
(* list that is on disk, whether or not an earlier git add of the cycle    *)
(* failed, and every path whose git add did not fail is staged.            *)
C21_StagingContinuesAfterFailure ==
    [][\A t \in Threads :
         (/\ schedPc[t] = "stage"
          /\ schedPc'[t] \notin {"stage", "blocked"}
          /\ schedStop'[t] # "exit"
          /\ ~schedTracked[t].all) =>
           \A i \in 1..Len(ToStage(t)) :
             \E j \in 1..Len(schedCmds'[t]) :
               /\ schedCmds'[t][j].cmd = "add"
               /\ schedCmds'[t][j].arg = ToStage(t)[i]
               /\ schedCmds'[t][j].rc = "ok" => wt'[ToStage(t)[i]] = AddOne(wt[ToStage(t)[i]])]_vars

(* C22: the staging of a thread with an explicit list runs git add only on *)
(* paths of the list it loaded in that cycle and leaves every other path   *)
(* of the working tree as it was.                                          *)
C22_StagesOnlyTrackedPaths ==
    [][\A t \in Threads :
         (/\ schedPc[t] = "stage"
          /\ schedPc'[t] \notin {"stage", "blocked"}
          /\ schedStop'[t] # "exit"
          /\ ~schedTracked[t].all) =>
           /\ \A j \in 1..Len(schedCmds'[t]) :
                schedCmds'[t][j].cmd = "add" => InList(schedCmds'[t][j].arg, schedTracked[t].files)
           /\ \A f \in Files :
                ~InList(f, schedTracked[t].files) => wt'[f] = wt[f]]_vars

\* a.txt alone is tracked and has been staged; b.txt is changed and is not
C22_Witness ==
    \E t \in Threads :
        /\ schedPc[t] = "verify"
        /\ schedTracked[t] = ExplicitSet(<<"a.txt">>)
        /\ wt["a.txt"] = "staged"
        /\ wt["b.txt"] = "modified"

\* tracked_files is the marker alone or a list alone
OneMode(tf) == tf.all => tf.files = <<>>

\* the tracked_files of the configuration: the one save_config is writing,
\* else the one load_config returns from the file (the empty list when the
\* file is missing or does not hold a configuration)
ConfigTracked ==
    IF fgPc = "save_write" THEN fgCfg["tracked_files"]
    ELSE IF HoldsConfig THEN Stored["tracked_files"]
    ELSE ExplicitSet(<<>>)

(* C23: tracked_files is the AllFiles marker or an explicit list, never    *)
(* both, in the file, in the foreground's configuration and in every       *)
(* thread; and no step takes the configuration from AllFiles to a list     *)
(* that is not empty: the explicit list that follows AllFiles starts empty.*)
C23_TrackedFilesOneMode ==
    /\ [](/\ OneMode(ConfigTracked)
          /\ OneMode(fgCfg["tracked_files"])
          /\ \A t \in Threads : OneMode(schedTracked[t]))
    /\ [][ConfigTracked.all => (ConfigTracked'.all \/ ConfigTracked'.files = <<>>)]_vars

\* track_files added a path to the explicit list and then switched to
\* AllFiles: the configuration being saved is the marker alone
C23_Witness ==
    /\ fgPc = "save_write"
    /\ fgCont = "track"
    /\ fgAdded # <<>>
    /\ fgCfg["tracked_files"] = AllFiles

NoDuplicates(l) == \A i, j \in 1..Len(l) : l[i] = l[j] => i = j
Paths(l) == {l[i] : i \in 1..Len(l)}
Position(l, x) == CHOOSE i \in 1..Len(l) : l[i] = x

\* list b keeps the paths it shares with list a in a's order and has the
\* paths it adds after them
KeepsOrder(a, b) ==
    \A x, y \in Paths(b) :
        /\ (x \in Paths(a) /\ y \in Paths(a) /\ Position(a, x) < Position(a, y)) =>
              Position(b, x) < Position(b, y)
        /\ (x \in Paths(a) /\ y \notin Paths(a)) => Position(b, x) < Position(b, y)

(* C24: the explicit tracked list never holds a path twice, and every step *)
(* of track_files and remove_from_tracking keeps the paths that stay in    *)
(* the list in their order and puts the paths it adds at the end.          *)
C24_TrackedListOrdered ==
    /\ [](NoDuplicates(ConfigTracked.files) /\ NoDuplicates(fgCfg["tracked_files"].files))
    /\ [][KeepsOrder(ConfigTracked.files, ConfigTracked'.files)]_vars

\* b.txt was tracked in this call of track_files, after a.txt
C24_Witness ==
    /\ fgPc = "save_write"
    /\ fgCont = "track"
    /\ fgAdded = <<"b.txt">>
    /\ fgCfg["tracked_files"] = ExplicitSet(<<"a.txt", "b.txt">>)

\* a.txt is tracked after b.txt: the list has the order of the additions
C24_WitnessOrder ==
    /\ HoldsConfig
    /\ fgPc = "track_menu"
    /\ Stored["tracked_files"] = ExplicitSet(<<"b.txt", "a.txt">>)

(* C25: the commit interval of every configuration in the file is a        *)
(* positive integer: edit_config never stores a zero or negative entry.    *)
C25_StoredIntervalPositive ==
    HoldsConfig => Get(Stored, "commit_interval", DefaultInterval) > 0

(* C26: no action chosen in the menu loop ends the loop with an exception: *)
(* from a running menu, every step leaves the process running or exited    *)
(* by choice.                                                              *)
C26_MenuActionNeverRaises ==
    [][ProcessAlive => fgPc' # "crashed"]_vars

(* C29: the key is never replaced while a configuration encrypted under it *)
(* exists: a step that leaves a decryptable configuration file in place    *)
(* leaves the key file as it is.                                           *)
C29_KeyGeneratedOnce ==
    [][(cfgFile.kind = "token" /\ cfgFile.key = keyFile /\ cfgFile' = cfgFile) =>
         keyFile' = keyFile]_vars

\* the thread is in the sync of its cycle, before the push
InSyncSteps(t) == schedPc[t] \in {"stage", "verify", "commit"}

\* the change detection finds nothing for the selection of the configuration
NothingToDetect == ~ChangesDetected(ConfigTracked, wt)

SchemaDefaults ==
    [repo_url |-> "", tracked_files |-> ExplicitSet(<<>>), auto_commit |-> FALSE,
     daemon_mode |-> FALSE, commit_interval |-> DefaultInterval, branch |-> "main"]

(* C28: the configuration load_config returns from a file that holds one   *)
(* has every field of the schema, a field the document lacks with its      *)
(* default.                                                                *)
C28_LoadBackfillsEveryField ==
    (fgPc = "loaded") =>
        \A k \in DOMAIN SchemaDefaults :
            /\ k \in DOMAIN fgCfg
            /\ k \notin DOMAIN JsonLoads(cfgFile.text) => fgCfg[k] = SchemaDefaults[k]

(* C30: a thread that finds nothing staged after its staging makes no      *)
(* commit attempt, and the cycle is not counted in error_count.            *)
C30_NothingStagedNoCommit ==
    [][\A t \in Threads :
         (schedPc[t] = "verify" /\ ~CanCommit(wt)) =>
            (schedPc'[t] # "commit" /\ errorCount'[t] = errorCount[t])]_vars

(* C31: every step that writes or removes the configuration file is a step *)
(* of the foreground flow, in which no thread moves: a thread's cycle      *)
(* leaves the file as it is, and no second write runs beside the one write *)
(* the foreground has in progress.                                         *)
C31_SchedulerNeverWritesConfig ==
    [][cfgFile' # cfgFile =>
         /\ fgVars' # fgVars
         /\ schedPc' = schedPc
         /\ schedCmds' = schedCmds]_vars

\* a thread has gone through a whole sync, push included, and the file
\* still holds the configuration
C31_Witness ==
    /\ HoldsConfig
    /\ \E t \in Threads :
         /\ schedPc[t] = "sleep"
         /\ \E j \in 1..Len(schedCmds[t]) :
              schedCmds[t][j].cmd = "push" /\ schedCmds[t][j].rc = "ok"

(* C32: the caller of save_config takes its success branch exactly when    *)
(* the configuration was written: remove_from_tracking goes on to its      *)
(* commit and push when, and only when, the file holds the configuration   *)
(* it saved.                                                               *)
C32_SaveResultAgreesWithWrite ==
    [][(fgPc = "save_write" /\ fgCont = "remove") =>
         (fgPc' = "commit" <=> cfgFile' = EncryptData(fgCfg, keyFile'))]_vars

(* C33: a path enters the tracked list in a step of track_files only when  *)
(* the git add of that step staged it: a path on which git add failed, and *)
(* which is therefore left as it was in the working tree, is not in the    *)
(* list the step leaves in the configuration.                              *)
C33_TrackedOnlyAfterStaged ==
    [][fgPc = "track_menu" =>
         \A f \in Files :
            (f \notin Paths(ConfigTracked.files) /\ f \in Paths(ConfigTracked'.files)) =>
               (Exists(wt, f) /\ wt'[f] = AddOne(wt[f]))]_vars

\* b.txt was staged and is being saved into the list; a.txt, changed and
\* on disk, is in neither
C33_Witness ==
    /\ fgPc = "save_write"
    /\ fgCont = "track"
    /\ fgCfg["tracked_files"] = ExplicitSet(<<"b.txt">>)
    /\ wt["b.txt"] = "staged"
    /\ wt["a.txt"] = "modified"

(* C34: while tracked_files is the AllFiles marker, no step of track_files *)
(* or remove_from_tracking raises, and each leaves the marker in the       *)
(* configuration.                                                          *)
C34_AllFilesActionsSafe ==
    [][(fgPc \in {"track_menu", "remove_loop"} /\ fgCfg["tracked_files"].all) =>
         (fgPc' # "crashed" /\ ConfigTracked'.all)]_vars

\* the bases of the backups in the directory
BackupBases == {SubSeq(n, 1, Len(n) - 1) : n \in DOMAIN backupDir}

(* C35: after restore_backup of a backup chosen from the keys of           *)
(* list_backups, the configuration file and the key file hold what one     *)
(* backup in the directory holds of them.                                  *)
C35_BackupRoundTrip ==
    (fgPc = "backup_menu" /\ fgCont = "restored") =>
        \E base \in BackupBases :
            /\ ConfigBackup(base) \in DOMAIN backupDir => cfgFile = backupDir[ConfigBackup(base)]
            /\ KeyBackup(base) \in DOMAIN backupDir => keyFile = backupDir[KeyBackup(base)]

====
